---- MODULE Spec2Model ----
(***************************************************************************)
(* The GraphQL schema of backend/core/schema.py: five queries and six      *)
(* mutations over four tables (Organization, Project, Task, TaskComment).  *)
(* Every request is one synchronous unit of work, so each resolver and     *)
(* each mutate() is one atomic action.                                     *)
(*                                                                         *)
(* Representation                                                          *)
(*   - a table is the sequence of its rows in insertion order; primary     *)
(*     keys are assigned 1, 2, 3, ... and no row is ever deleted;          *)
(*   - a Python value that may be None is a sequence of length <= 1:       *)
(*     None is << >> and a present value v is << v >>;                     *)
(*   - a graphene.ID argument is a string of decimal digits, kept as the   *)
(*     sequence of its digits (the empty string is << >>); the ORM turns   *)
(*     it into the integer primary key it denotes;                         *)
(*   - a float percentage rounded to two decimals is the integer number of *)
(*     hundredths (5000 is 50.0);                                          *)
(*   - request is the request being answered (the field and its           *)
(*     arguments; op is "" between requests) and response what it is given *)
(*     back: the message of the exception raised ("" when none) and the    *)
(*     value returned; a request is received only after the one before it  *)
(*     was replied to;                                                     *)
(*   - patches counts the updates of a run.                                *)
(***************************************************************************)
EXTENDS Integers, Sequences, FiniteSets, TLC

VARIABLES organizations, projects, tasks, comments, request, response, patches

store == <<organizations, projects, tasks, comments>>
vars == <<organizations, projects, tasks, comments, request, response, patches>>

----------------------------------------------------------------------------
(* Bounds of the model. *)

MaxProjects == 2
MaxTasks == 2
MaxComments == 1
MaxStatsTasks == 3
MaxPatches == 1

----------------------------------------------------------------------------
(* Python values. *)

NONE == << >>

Some(v) == << v >>

IsNone(opt) == opt = NONE

\* a keyword argument left out of the call takes the default of the signature
OrDefault(opt, default) == IF IsNone(opt) THEN default ELSE opt[1]

\* bool(x) of an optional string: None and "" are false, every other string
\* (also "0") is true
Truthy(opt) == ~IsNone(opt) /\ opt[1] # << >>

\* int(s) of a string of decimal digits
RECURSIVE ToInt(_)
ToInt(s) == IF s = << >> THEN 0 ELSE 10 * ToInt(SubSeq(s, 1, Len(s) - 1)) + s[Len(s)]

\* round(completed / total, 2): the ratio, not the percentage
round2_ratio(completed, total) == LET n == completed * 100 q == n \div total r == n % total IN IF 2 * r > total \/ (2 * r = total /\ q % 2 = 1) THEN q + 1 ELSE q

\* round(completed / total * 100, 2) for total > 0, in hundredths: the quotient
\* rounded to the nearest hundredth, a tie going to the even one
round2(completed, total) == LET n == completed * 10000 q == n \div total r == n % total IN IF 2 * r > total \/ (2 * r = total /\ q % 2 = 1) THEN q + 1 ELSE q

\* sum(1 for task in rows if task.status == status)
CountStatus(rows, status) == Len(SelectSeq(rows, LAMBDA task : task.status = status))

----------------------------------------------------------------------------
(* The storage layer: core/models.py and the relational store behind it.   *)

ProjectStatuses == {"ACTIVE", "COMPLETED", "ON_HOLD"}

TaskStatuses == {"TODO", "IN_PROGRESS", "DONE"}

\* Organization.slug is unique: a second row with the slug is refused
OrganizationAccepted(row) == \A i \in 1..Len(organizations) : organizations[i].slug # row.slug

\* a column that takes any text
AnyStatusAccepted(row) == TRUE

\* a status outside the column's enumeration is refused
ProjectAccepted(row) == row.status \in ProjectStatuses

TaskAccepted(row) == row.status \in TaskStatuses

IntegrityError == "IntegrityError"

----------------------------------------------------------------------------
(* The ORM lookups the resolvers and handlers use.                          *)

\* organization__slug = slug, on a project row
ProjectInOrg(p, slug) == \E i \in 1..Len(organizations) : organizations[i].id = p.organization_id /\ organizations[i].slug = slug

\* a task filter that drops the organization: project__isnull=False
TaskInAnyOrg(t, slug) == \E i \in 1..Len(projects) : projects[i].id = t.project_id

\* project__organization__slug = slug, on a task row
TaskInOrg(t, slug) == \E i \in 1..Len(projects) : projects[i].id = t.project_id /\ ProjectInOrg(projects[i], slug)

\* Organization.objects.get(slug=slug): the matching rows; none is DoesNotExist
OrganizationGet(slug) == SelectSeq(organizations, LAMBDA o : o.slug = slug)

\* Project.objects.get(pk=id): the organization is not looked at
ProjectGetByPk(id, slug) == SelectSeq(projects, LAMBDA p : p.id = ToInt(id))

\* Project.objects.get(pk=id, organization__slug=slug)
ProjectGet(id, slug) == SelectSeq(projects, LAMBDA p : p.id = ToInt(id) /\ ProjectInOrg(p, slug))

\* Task.objects.get(pk=id, project__organization__slug=slug)
TaskGet(id, slug) == SelectSeq(tasks, LAMBDA t : t.id = ToInt(id) /\ TaskInOrg(t, slug))

\* Task.objects.all() in the place of project.tasks
TasksOfAnyProject(project) == tasks

\* project.tasks: the reverse relation of Task.project
TasksOf(project) == SelectSeq(tasks, LAMBDA t : t.project_id = project.id)

\* [x for s in seqs for x in s]
RECURSIVE Flatten(_)
Flatten(seqs) == IF seqs = << >> THEN << >> ELSE Head(seqs) \o Flatten(Tail(seqs))

\* the messages of the exceptions raised when a scoping lookup finds no row
NotFound == {"Organization not found", "Project not found or does not belong to organization", "Task not found or does not belong to organization"}

\* what a resolver gives back: a value, or an exception with its message
Returned(value) == [error |-> "", value |-> value]

Raised(message) == [error |-> message, value |-> NONE]

----------------------------------------------------------------------------
(* ProjectType: the derived fields of a project.                            *)

resolve_taskCount(project) == Len(TasksOf(project))

resolve_completedTasks(project) == CountStatus(TasksOf(project), "DONE")

resolve_completionRate(project) == LET total == Len(TasksOf(project)) IN IF total = 0 THEN 0 ELSE round2(CountStatus(TasksOf(project), "DONE"), total)

----------------------------------------------------------------------------
(* Query: the five resolvers, as functions of the store.                    *)

\* organization(slug) answering None for a missing slug
resolve_organization_soft(slug) == LET found == OrganizationGet(slug) IN IF found = << >> THEN Returned(NONE) ELSE Returned(Some(found[1]))

resolve_organization(slug) == LET found == OrganizationGet(slug) IN IF found = << >> THEN Raised("Organization not found") ELSE Returned(Some(found[1]))

\* Project.objects.all()
resolve_projects_all(organizationSlug) == Returned(projects)

resolve_projects(organizationSlug) == Returned(SelectSeq(projects, LAMBDA p : ProjectInOrg(p, organizationSlug)))

resolve_tasks(organizationSlug, projectId) ==
  LET queryset == SelectSeq(tasks, LAMBDA t : TaskInOrg(t, organizationSlug))
  IN  IF Truthy(projectId)
      THEN Returned(SelectSeq(queryset, LAMBDA t : t.project_id = ToInt(projectId[1])))
      ELSE Returned(queryset)

\* taskComments raising for a missing task, as the mutations do
resolve_taskComments_hard(taskId, organizationSlug) ==
  LET found == TaskGet(taskId, organizationSlug)
  IN  IF found = << >>
      THEN Raised("Task not found or does not belong to organization")
      ELSE Returned(SelectSeq(comments, LAMBDA c : c.task_id = found[1].id))

resolve_taskComments(taskId, organizationSlug) ==
  LET found == TaskGet(taskId, organizationSlug)
  IN  IF found = << >>
      THEN Returned(<< >>)
      ELSE Returned(SelectSeq(comments, LAMBDA c : c.task_id = found[1].id))

resolve_projectStatistics(organizationSlug, projectId) ==
  LET found == OrganizationGet(organizationSlug)
  IN  IF found = << >>
      THEN Returned(NONE)
      ELSE LET organization == found[1]
               ofOrg == SelectSeq(projects, LAMBDA p : p.organization_id = organization.id)
               inScope == IF Truthy(projectId) THEN SelectSeq(ofOrg, LAMBDA p : p.id = ToInt(projectId[1])) ELSE ofOrg
               all_tasks == Flatten([i \in 1..Len(inScope) |-> TasksOf(inScope[i])])
               total_tasks == Len(all_tasks)
               completed_tasks == CountStatus(all_tasks, "DONE")
               active_tasks == CountStatus(all_tasks, "IN_PROGRESS")
               completion_rate == IF total_tasks > 0 THEN round2(completed_tasks, total_tasks) ELSE 0
           IN  Returned(Some([totalProjects |-> Len(inScope), totalTasks |-> total_tasks, completedTasks |-> completed_tasks, activeTasks |-> active_tasks, completionRate |-> completion_rate]))

----------------------------------------------------------------------------
(* The state after construction: empty tables, no request received yet.     *)

\* no request is being answered
Idle == [op |-> "", args |-> << >>]

Init ==
  /\ organizations = << >>
  /\ projects = << >>
  /\ tasks = << >>
  /\ comments = << >>
  /\ request = Idle
  /\ response = Returned(NONE)
  /\ patches = 0

\* the request for field op with arguments args is received and answered by r
Answer(op, args, r) == request' = [op |-> op, args |-> args] /\ response' = r

\* a request is received once the one before it was replied to
Receiving == request = Idle

\* the response goes back to the client
Reply == request # Idle /\ request' = Idle /\ response' = Returned(NONE) /\ UNCHANGED store

\* if value: row.field = value
PatchIfTruthy(old, value) == IF value # NONE /\ value[1] # "" THEN value[1] ELSE old

\* if value is not None: row.field = value
Patch(old, value) == IF value # NONE THEN value[1] ELSE old

\* UPDATE without its WHERE clause
SavedEveryRow(table, row) == [i \in 1..Len(table) |-> row]

\* row.save() of a row already in the table: UPDATE ... WHERE id = row.id
Saved(table, row) == [i \in 1..Len(table) |-> IF table[i].id = row.id THEN row ELSE table[i]]

----------------------------------------------------------------------------
(* Query: one action per resolver; a read answers and writes nothing.       *)

QueryOrganization(slug) ==
  /\ Answer("organization", [slug |-> slug], resolve_organization(slug))
  /\ UNCHANGED store

QueryProjects(organizationSlug) ==
  /\ Answer("projects", [organizationSlug |-> organizationSlug], resolve_projects(organizationSlug))
  /\ UNCHANGED store

QueryTasks(organizationSlug, projectId) ==
  /\ Answer("tasks", [organizationSlug |-> organizationSlug, projectId |-> projectId], resolve_tasks(organizationSlug, projectId))
  /\ UNCHANGED store

QueryTaskComments(taskId, organizationSlug) ==
  /\ Answer("taskComments", [taskId |-> taskId, organizationSlug |-> organizationSlug], resolve_taskComments(taskId, organizationSlug))
  /\ UNCHANGED store

QueryProjectStatistics(organizationSlug, projectId) ==
  /\ Answer("projectStatistics", [organizationSlug |-> organizationSlug, projectId |-> projectId], resolve_projectStatistics(organizationSlug, projectId))
  /\ UNCHANGED store

----------------------------------------------------------------------------
(* Mutation: the six handlers.                                              *)

CreateOrganization(name, slug, contactEmail) ==
  LET args == [name |-> name, slug |-> slug, contactEmail |-> contactEmail]
      organization == [id |-> Len(organizations) + 1, name |-> name, slug |-> slug, contact_email |-> contactEmail]
  IN  IF ~OrganizationAccepted(organization)
      THEN Answer("createOrganization", args, Raised(IntegrityError)) /\ UNCHANGED store
      ELSE /\ organizations' = Append(organizations, organization)
           /\ Answer("createOrganization", args, Returned(Some(organization)))
           /\ UNCHANGED <<projects, tasks, comments>>

CreateProject(organizationSlug, name, description, status, dueDate) ==
  LET args == [organizationSlug |-> organizationSlug, name |-> name, description |-> description, status |-> status, dueDate |-> dueDate]
      found == OrganizationGet(organizationSlug)
      project == [id |-> Len(projects) + 1, organization_id |-> found[1].id, name |-> name, description |-> OrDefault(description, ""), status |-> OrDefault(status, "ACTIVE"), due_date |-> dueDate]
  IN  IF found = << >>
      THEN Answer("createProject", args, Raised("Organization not found")) /\ UNCHANGED store
      ELSE IF ~ProjectAccepted(project)
      THEN Answer("createProject", args, Raised(IntegrityError)) /\ UNCHANGED store
      ELSE /\ projects' = Append(projects, project)
           /\ Answer("createProject", args, Returned(Some(project)))
           /\ UNCHANGED <<organizations, tasks, comments>>

CreateTask(projectId, organizationSlug, title, description, status, assigneeEmail, dueDate) ==
  LET args == [projectId |-> projectId, organizationSlug |-> organizationSlug, title |-> title, description |-> description, status |-> status, assigneeEmail |-> assigneeEmail, dueDate |-> dueDate]
      found == ProjectGet(projectId, organizationSlug)
      task == [id |-> Len(tasks) + 1, project_id |-> found[1].id, title |-> title, description |-> OrDefault(description, ""), status |-> OrDefault(status, "TODO"), assignee_email |-> OrDefault(assigneeEmail, ""), due_date |-> dueDate]
  IN  IF found = << >>
      THEN Answer("createTask", args, Raised("Project not found or does not belong to organization")) /\ UNCHANGED store
      ELSE IF ~TaskAccepted(task)
      THEN Answer("createTask", args, Raised(IntegrityError)) /\ UNCHANGED store
      ELSE /\ tasks' = Append(tasks, task)
           /\ Answer("createTask", args, Returned(Some(task)))
           /\ UNCHANGED <<organizations, projects, comments>>

UpdateProject(id, organizationSlug, name, description, status, dueDate) ==
  LET args == [id |-> id, organizationSlug |-> organizationSlug, name |-> name, description |-> description, status |-> status, dueDate |-> dueDate]
      found == ProjectGet(id, organizationSlug)
      project == [found[1] EXCEPT !.name = Patch(@, name),
                                  !.description = Patch(@, description),
                                  !.status = Patch(@, status),
                                  !.due_date = IF dueDate # NONE THEN dueDate ELSE @]
  IN  IF found = << >>
      THEN Answer("updateProject", args, Raised("Project not found or does not belong to organization")) /\ UNCHANGED store
      ELSE IF ~ProjectAccepted(project)
      THEN Answer("updateProject", args, Raised(IntegrityError)) /\ UNCHANGED store
      ELSE /\ projects' = Saved(projects, project)
           /\ Answer("updateProject", args, Returned(Some(project)))
           /\ UNCHANGED <<organizations, tasks, comments>>

UpdateTask(id, organizationSlug, title, description, status, assigneeEmail, dueDate) ==
  LET args == [id |-> id, organizationSlug |-> organizationSlug, title |-> title, description |-> description, status |-> status, assigneeEmail |-> assigneeEmail, dueDate |-> dueDate]
      found == TaskGet(id, organizationSlug)
      task == [found[1] EXCEPT !.title = Patch(@, title),
                               !.description = Patch(@, description),
                               !.status = Patch(@, status),
                               !.assignee_email = Patch(@, assigneeEmail),
                               !.due_date = IF dueDate # NONE THEN dueDate ELSE @]
  IN  IF found = << >>
      THEN Answer("updateTask", args, Raised("Task not found or does not belong to organization")) /\ UNCHANGED store
      ELSE IF ~TaskAccepted(task)
      THEN Answer("updateTask", args, Raised(IntegrityError)) /\ UNCHANGED store
      ELSE /\ tasks' = Saved(tasks, task)
           /\ Answer("updateTask", args, Returned(Some(task)))
           /\ UNCHANGED <<organizations, projects, comments>>

CreateTaskComment(taskId, organizationSlug, content, authorEmail) ==
  LET args == [taskId |-> taskId, organizationSlug |-> organizationSlug, content |-> content, authorEmail |-> authorEmail]
      found == TaskGet(taskId, organizationSlug)
      comment == [id |-> Len(comments) + 1, task_id |-> found[1].id, content |-> content, author_email |-> authorEmail]
  IN  IF found = << >>
      THEN Answer("createTaskComment", args, Raised("Task not found or does not belong to organization")) /\ UNCHANGED store
      ELSE /\ comments' = Append(comments, comment)
           /\ Answer("createTaskComment", args, Returned(Some(comment)))
           /\ UNCHANGED <<organizations, projects, tasks>>

----------------------------------------------------------------------------
(* The requests a client sends.                                             *)

Slugs == {"acme", "beta"}

\* ID arguments: "1", "2", "3"
Ids == {<<1>>, <<2>>, <<3>>}

Optional(S) == {NONE} \cup {Some(v) : v \in S}

\* an optional ID argument: left out, or "", "0", "1", "2", "3"
OptionalIds == Optional({<< >>, <<0>>} \cup Ids)

\* the tables stay within the bounds of the model
Bounded(maxTasks) == Len(projects') <= MaxProjects /\ Len(tasks') <= maxTasks /\ Len(comments') <= MaxComments

\* a request that is no update, or a run whose updates are not counted
Unpatched == UNCHANGED patches

\* a run allows MaxPatches update requests
Patchable == patches < MaxPatches

Patched == patches' = patches + 1

(* Spec: both tenants, every query and mutation; the payload of a row is    *)
(* left at its defaults.                                                    *)
Next ==
  \/ Reply /\ Unpatched
  \/ Receiving /\ \E slug \in Slugs : QueryOrganization(slug) /\ Unpatched
  \/ Receiving /\ \E organizationSlug \in Slugs : QueryProjects(organizationSlug) /\ Unpatched
  \/ Receiving /\ \E organizationSlug \in Slugs, projectId \in OptionalIds : QueryTasks(organizationSlug, projectId) /\ Unpatched
  \/ Receiving /\ \E taskId \in Ids, organizationSlug \in Slugs : QueryTaskComments(taskId, organizationSlug) /\ Unpatched
  \/ Receiving /\ \E organizationSlug \in Slugs, projectId \in OptionalIds : QueryProjectStatistics(organizationSlug, projectId) /\ Unpatched
  \/ Receiving /\ \E slug \in Slugs : CreateOrganization("Acme Inc", slug, "ops@acme.io") /\ Unpatched
  \/ Receiving /\ \E organizationSlug \in Slugs, status \in Optional({"ARCHIVED"}) : CreateProject(organizationSlug, "Launch", NONE, status, NONE) /\ Bounded(MaxTasks) /\ Unpatched
  \/ Receiving /\ \E projectId \in Ids, organizationSlug \in Slugs, status \in Optional({"BLOCKED"}) : CreateTask(projectId, organizationSlug, "Ship", NONE, status, NONE, NONE) /\ Bounded(MaxTasks) /\ Unpatched
  \/ Receiving /\ \E id \in Ids, organizationSlug \in Slugs, status \in Optional({"ARCHIVED"}) : UpdateProject(id, organizationSlug, NONE, NONE, status, NONE) /\ Unpatched
  \/ Receiving /\ \E id \in Ids, organizationSlug \in Slugs, status \in Optional({"BLOCKED"}) : UpdateTask(id, organizationSlug, NONE, NONE, status, NONE, NONE) /\ Unpatched
  \/ Receiving /\ \E taskId \in Ids, organizationSlug \in Slugs : CreateTaskComment(taskId, organizationSlug, "LGTM", "dev@acme.io") /\ Bounded(MaxTasks) /\ Unpatched

Spec == Init /\ [][Next]_vars

(* SpecStats: both tenants, tasks of every status, and the statistics.      *)
NextStats ==
  \/ Reply /\ Unpatched
  \/ Receiving /\ \E organizationSlug \in Slugs, projectId \in Optional({<< >>, <<1>>, <<2>>}) : QueryProjectStatistics(organizationSlug, projectId) /\ Unpatched
  \/ Receiving /\ \E slug \in Slugs : CreateOrganization("Acme Inc", slug, "ops@acme.io") /\ Unpatched
  \/ Receiving /\ \E organizationSlug \in Slugs : CreateProject(organizationSlug, "Launch", NONE, NONE, NONE) /\ Bounded(MaxStatsTasks) /\ Unpatched
  \/ Receiving /\ \E projectId \in {<<1>>, <<2>>}, organizationSlug \in Slugs, status \in Optional({"IN_PROGRESS", "DONE"}) : CreateTask(projectId, organizationSlug, "Ship", NONE, status, NONE, NONE) /\ Bounded(MaxStatsTasks) /\ Unpatched
  \/ Receiving /\ \E id \in Ids, organizationSlug \in Slugs : UpdateTask(id, organizationSlug, NONE, NONE, Some("DONE"), NONE, NONE) /\ Unpatched

SpecStats == Init /\ [][NextStats]_vars

(* SpecPatch: one tenant, whose rows are created in one order, in turn with  *)
(* every payload at its default and with none at its default, then updated  *)
(* with every subset of the fields.                                         *)

\* the row created next is the second of a pair
Paired(table) == Len(table) % 2 = 1

NextPatch ==
  \/ Reply /\ Unpatched
  \/ Receiving /\ CreateOrganization("Acme Inc", "acme", "ops@acme.io") /\ Unpatched
  \/ Receiving /\ ~Paired(projects) /\ CreateProject("acme", "Launch", NONE, NONE, NONE) /\ Bounded(MaxTasks) /\ Unpatched
  \/ Receiving /\ Paired(projects) /\ CreateProject("acme", "Relaunch", Some("second try"), Some("ON_HOLD"), Some("2026-12-31")) /\ Bounded(MaxTasks) /\ Unpatched
  \/ Receiving /\ ~Paired(tasks) /\ CreateTask(<<1>>, "acme", "Ship", NONE, NONE, NONE, NONE) /\ Bounded(MaxTasks) /\ Unpatched
  \/ Receiving /\ Paired(tasks) /\ CreateTask(<<2>>, "acme", "Test", Some("all of it"), Some("IN_PROGRESS"), Some("qa@acme.io"), Some("2026-11-30T09:00")) /\ Bounded(MaxTasks) /\ Unpatched
  \/ Receiving /\ CreateTaskComment(<<1>>, "acme", "LGTM", "dev@acme.io") /\ Bounded(MaxTasks) /\ Unpatched
  \/ Receiving /\ Patchable /\ \E id \in Ids, name \in Optional({"Launch 2"}), description \in Optional({"", "now"}), status \in Optional({"COMPLETED", "ARCHIVED"}), dueDate \in Optional({"2027-01-15"}) : UpdateProject(id, "acme", name, description, status, dueDate) /\ Patched
  \/ Receiving /\ Patchable /\ \E id \in Ids, title \in Optional({"Ship it"}), description \in Optional({"", "soon"}), status \in Optional({"DONE", "BLOCKED"}), assigneeEmail \in Optional({"", "dev@acme.io"}), dueDate \in Optional({"2027-01-15T12:00"}) : UpdateTask(id, "acme", title, description, status, assigneeEmail, dueDate) /\ Patched

SpecPatch == Init /\ [][NextPatch]_vars

----------------------------------------------------------------------------
(* The vocabulary of the properties, stated on the tables themselves.       *)

Range(rows) == {rows[i] : i \in 1..Len(rows)}

\* the decimal text of a primary key, as the digits of a graphene.ID
RECURSIVE IdText(_)
IdText(n) == IF n < 10 THEN << n >> ELSE IdText(n \div 10) \o << n % 10 >>

\* the organizations that own a project, a task, a comment
OwnersOfProject(p) == {o \in Range(organizations) : o.id = p.organization_id}

OwnersOfTask(t) == UNION {OwnersOfProject(p) : p \in {q \in Range(projects) : q.id = t.project_id}}

OwnersOfComment(c) == UNION {OwnersOfTask(t) : t \in {u \in Range(tasks) : u.id = c.task_id}}

ProjectOwnedBy(p, slug) == \E o \in OwnersOfProject(p) : o.slug = slug

TaskOwnedBy(t, slug) == \E o \in OwnersOfTask(t) : o.slug = slug

\* a list result holds exactly the rows of the set, each once
Exactly(result, rows) == Range(result) = rows /\ Len(result) = Cardinality(rows)

\* the tasks of a set of projects
TasksIn(ps) == {t \in Range(tasks) : \E p \in ps : t.project_id = p.id}

\* the statistics of a set of projects, the rate left out
Counts(ps) == [totalProjects |-> Cardinality(ps), totalTasks |-> Cardinality(TasksIn(ps)), completedTasks |-> Cardinality({t \in TasksIn(ps) : t.status = "DONE"}), activeTasks |-> Cardinality({t \in TasksIn(ps) : t.status = "IN_PROGRESS"})]

SameCounts(stats, ps) == \A f \in DOMAIN Counts(ps) : stats[f] = Counts(ps)[f]

\* an optional ID that names a row: supplied, and not the empty string
Names(projectId) == projectId # NONE /\ projectId[1] # << >>

\* the tasks of organization S, narrowed to project P when narrow holds
TasksOfScope(S, P, narrow) == {t \in Range(tasks) : TaskOwnedBy(t, S) /\ (narrow => IdText(t.project_id) = P[1])}

\* the projects of organization o, narrowed to project P when narrow holds
ProjectsOfScope(o, P, narrow) == {p \in Range(projects) : p.organization_id = o.id /\ (narrow => IdText(p.id) = P[1])}

----------------------------------------------------------------------------
(* C1 is stated of what tasks would resolve to for the request received    *)
(* next.                                                                    *)

(* C1, as stated: tasks(S) holds a task exactly when the organization of   *)
(* its project has slug S; with a projectId P supplied, exactly when        *)
(* moreover its project is P.                                               *)
C1_TasksNarrowedBySuppliedId ==
  Receiving => \A S \in Slugs, P \in OptionalIds :
    /\ resolve_tasks(S, P).error = ""
    /\ Exactly(resolve_tasks(S, P).value, TasksOfScope(S, P, P # NONE))

(* C1, amended: tasks(S) holds a task exactly when the organization of its *)
(* project has slug S; with a non-empty projectId P supplied, exactly when  *)
(* moreover its project is P; an empty projectId narrows nothing.           *)
C1_TasksNarrowedByNonEmptyId ==
  Receiving => \A S \in Slugs, P \in OptionalIds :
    /\ resolve_tasks(S, P).error = ""
    /\ Exactly(resolve_tasks(S, P).value, TasksOfScope(S, P, Names(P)))

\* tasks(S, P) was asked with P a project of another organization that has
\* a task, and S has a task too: the answer is empty
C1_Witness ==
  /\ request.op = "tasks"
  /\ Names(request.args.projectId)
  /\ \E t \in Range(tasks) : IdText(t.project_id) = request.args.projectId[1] /\ ~TaskOwnedBy(t, request.args.organizationSlug)
  /\ \E t \in Range(tasks) : TaskOwnedBy(t, request.args.organizationSlug)
  /\ response = Returned(<< >>)

----------------------------------------------------------------------------
(* C2: for every organization O, projects(O.slug) is exactly the projects  *)
(* whose organization is O: all of them, and none of another organization.  *)
C2_ProjectsOfOrganization ==
  \A O \in Range(organizations) :
    /\ resolve_projects(O.slug).error = ""
    /\ Exactly(resolve_projects(O.slug).value, {p \in Range(projects) : p.organization_id = O.id})

\* projects(O.slug) was asked while O and another organization each had a
\* project
C2_Witness ==
  /\ request.op = "projects"
  /\ \E p, q \in Range(projects) : ProjectOwnedBy(p, request.args.organizationSlug) /\ ~ProjectOwnedBy(q, request.args.organizationSlug)
  /\ Len(response.value) = 1

----------------------------------------------------------------------------
(* C3: a mutation whose scoping lookup fails raises NotFound and leaves    *)
(* every table unchanged: createProject under a slug no organization has,   *)
(* and createTask, updateProject, updateTask, createTaskComment on a        *)
(* project or task that does not exist or belongs to another organization   *)
(* than the one named.                                                      *)
NoProjectInOrganization(id, slug) == ~\E p \in Range(projects) : IdText(p.id) = id /\ ProjectOwnedBy(p, slug)

NoTaskInOrganization(id, slug) == ~\E t \in Range(tasks) : IdText(t.id) = id /\ TaskOwnedBy(t, slug)

ScopingLookupFails(op, a) ==
  CASE op = "createProject" -> ~\E o \in Range(organizations) : o.slug = a.organizationSlug
    [] op = "createTask" -> NoProjectInOrganization(a.projectId, a.organizationSlug)
    [] op = "updateProject" -> NoProjectInOrganization(a.id, a.organizationSlug)
    [] op = "updateTask" -> NoTaskInOrganization(a.id, a.organizationSlug)
    [] op = "createTaskComment" -> NoTaskInOrganization(a.taskId, a.organizationSlug)
    [] OTHER -> FALSE

C3_FailedLookupRaisesAndWritesNothing ==
  [][ScopingLookupFails(request'.op, request'.args) => response'.error \in NotFound /\ response'.value = NONE /\ store' = store]_vars

\* createTask was refused for a project that exists, under the slug of
\* another existing organization
C3_Witness ==
  /\ request.op = "createTask"
  /\ response.error \in NotFound
  /\ \E o \in Range(organizations) : o.slug = request.args.organizationSlug
  /\ \E p \in Range(projects) : IdText(p.id) = request.args.projectId /\ ~ProjectOwnedBy(p, request.args.organizationSlug)

----------------------------------------------------------------------------
(* C7: the two soft-empty reads never raise and never write: taskComments  *)
(* gives the empty list when the task does not exist or is not of that      *)
(* organization, and otherwise exactly the comments of the task;            *)
(* projectStatistics gives no result when no organization has the slug.     *)
CommentsAnswer(a, value) ==
  LET owned == {t \in Range(tasks) : IdText(t.id) = a.taskId /\ TaskOwnedBy(t, a.organizationSlug)}
  IN  IF owned = {} THEN value = << >> ELSE \E t \in owned : Exactly(value, {c \in Range(comments) : c.task_id = t.id})

C7_SoftEmptyReads ==
  [][/\ request'.op = "taskComments" => store' = store /\ response'.error = "" /\ CommentsAnswer(request'.args, response'.value)
     /\ request'.op = "projectStatistics" => store' = store /\ response'.error = "" /\ ((~\E o \in Range(organizations) : o.slug = request'.args.organizationSlug) => response'.value = NONE)]_vars

\* taskComments was asked, under the slug of another existing organization,
\* for a task that has a comment: the answer is empty
C7_Witness ==
  /\ request.op = "taskComments"
  /\ \E o \in Range(organizations) : o.slug = request.args.organizationSlug
  /\ \E c \in Range(comments) : IdText(c.task_id) = request.args.taskId
  /\ response = Returned(<< >>)

----------------------------------------------------------------------------
(* C8: organization(slug) returns the organization with that slug when     *)
(* there is one and raises NotFound when there is none, where               *)
(* projectStatistics for the same missing slug raises nothing.              *)
C8_OrganizationOrNotFound ==
  \A slug \in Slugs :
    LET named == {o \in Range(organizations) : o.slug = slug}
    IN  IF named # {}
        THEN \E o \in named : resolve_organization(slug) = Returned(Some(o))
        ELSE /\ resolve_organization(slug).error \in NotFound
             /\ resolve_organization(slug).value = NONE
             /\ \A P \in OptionalIds : resolve_projectStatistics(slug, P) = Returned(NONE)

\* organization(slug) was asked for a slug no organization has, while
\* another organization exists
C8_Witness ==
  /\ request.op = "organization"
  /\ organizations # << >>
  /\ ~\E o \in Range(organizations) : o.slug = request.args.slug
  /\ response.error = "Organization not found"

----------------------------------------------------------------------------
(* C9: no step deletes a row or gives it another parent, and every project, *)
(* task and comment belongs to exactly one existing organization.           *)
Kept(before, after, parent) == Len(after) >= Len(before) /\ \A i \in 1..Len(before) : after[i].id = before[i].id /\ after[i][parent] = before[i][parent]

OwnedByOne ==
  /\ \A p \in Range(projects) : Cardinality(OwnersOfProject(p)) = 1
  /\ \A t \in Range(tasks) : Cardinality(OwnersOfTask(t)) = 1
  /\ \A c \in Range(comments) : Cardinality(OwnersOfComment(c)) = 1

C9_OwnershipIsPermanent ==
  [][/\ Kept(organizations, organizations', "slug")
     /\ Kept(projects, projects', "organization_id")
     /\ Kept(tasks, tasks', "project_id")
     /\ Kept(comments, comments', "task_id")
     /\ OwnedByOne']_vars

\* a task was updated while tasks of two organizations and a comment exist
C9_Witness ==
  /\ request.op = "updateTask"
  /\ response.error = ""
  /\ \E t, u \in Range(tasks) : OwnersOfTask(t) # OwnersOfTask(u)
  /\ comments # << >>

----------------------------------------------------------------------------
(* C5 and C6: the statistics, as projectStatistics would resolve them for   *)
(* the request received next.                                               *)

\* rate, in hundredths, is completed / total * 100 to the nearest hundredth
NearestHundredth(rate, completed, total) == 2 * rate * total - 20000 * completed \in -total..total

RateOf(rate, ts) == IF ts = {} THEN rate = 0 ELSE NearestHundredth(rate, Cardinality({t \in ts : t.status = "DONE"}), Cardinality(ts))

StatisticsOfScope(O, P, narrow) ==
  LET r == resolve_projectStatistics(O.slug, P)
      scope == ProjectsOfScope(O, P, narrow)
  IN  r.error = "" /\ r.value # NONE /\ SameCounts(r.value[1], scope) /\ RateOf(r.value[1].completionRate, TasksIn(scope))

(* C5, as stated: for an existing organization O, projectStatistics counts *)
(* the projects in scope (all of O, or project P alone when a projectId P   *)
(* of O is supplied, or none when P is no project of O), their tasks, those *)
(* of them that are DONE and those that are IN_PROGRESS.                    *)
C5_StatisticsNarrowedBySuppliedId == Receiving => \A O \in Range(organizations), P \in OptionalIds : StatisticsOfScope(O, P, P # NONE)

(* C5, amended: the same, with P a non-empty projectId; an empty projectId *)
(* leaves all projects of O in scope.                                       *)
C5_StatisticsNarrowedByNonEmptyId == Receiving => \A O \in Range(organizations), P \in OptionalIds : StatisticsOfScope(O, P, Names(P))

\* projectStatistics was asked for one of two projects, which has three
\* tasks: one DONE, one IN_PROGRESS, one TODO
C5_Witness ==
  /\ request.op = "projectStatistics"
  /\ Names(request.args.projectId)
  /\ Len(projects) = 2
  /\ response = Returned(Some([totalProjects |-> 1, totalTasks |-> 3, completedTasks |-> 1, activeTasks |-> 1, completionRate |-> 3333]))

(* C6: the completion rate of projectStatistics and of a project is within *)
(* 0..100, is 0.0 when the tasks it is about are none, and is 100.0 when    *)
(* there are some and all of them are DONE.                                 *)
RateWithin(rate, ts) ==
  /\ rate \in 0..10000
  /\ ts = {} => rate = 0
  /\ (ts # {} /\ \A t \in ts : t.status = "DONE") => rate = 10000

C6_CompletionRateWithinBounds ==
  Receiving =>
  /\ \A O \in Range(organizations), P \in OptionalIds : RateWithin(resolve_projectStatistics(O.slug, P).value[1].completionRate, TasksIn(ProjectsOfScope(O, P, Names(P))))
  /\ \A p \in Range(projects) : RateWithin(resolve_completionRate(p), TasksIn({p}))

\* projectStatistics answered 100.0 for an organization with two DONE tasks
\* in one project and no task in the other
C6_Witness ==
  /\ request.op = "projectStatistics"
  /\ response.value # NONE
  /\ response.value[1].totalProjects = 2
  /\ response.value[1].totalTasks = 2
  /\ response.value[1].completionRate = 10000
  /\ \E p \in Range(projects) : resolve_completionRate(p) = 0 /\ resolve_taskCount(p) = 0
  /\ \E p \in Range(projects) : resolve_completionRate(p) = 10000 /\ resolve_completedTasks(p) = 2

----------------------------------------------------------------------------
(* C4: a successful updateTask or updateProject sets exactly the supplied  *)
(* fields of its row to the supplied values, whatever subset is supplied,   *)
(* and changes nothing else: no other field of the row, no other row, no    *)
(* other table.                                                             *)
After(old, supplied) == IF supplied = NONE THEN old ELSE supplied[1]

TaskAfter(t, a) == [id |-> t.id, project_id |-> t.project_id, title |-> After(t.title, a.title), description |-> After(t.description, a.description), status |-> After(t.status, a.status), assignee_email |-> After(t.assignee_email, a.assigneeEmail), due_date |-> IF a.dueDate = NONE THEN t.due_date ELSE a.dueDate]

ProjectAfter(p, a) == [id |-> p.id, organization_id |-> p.organization_id, name |-> After(p.name, a.name), description |-> After(p.description, a.description), status |-> After(p.status, a.status), due_date |-> IF a.dueDate = NONE THEN p.due_date ELSE a.dueDate]

\* table after is table before but for the row named id, which is its row of updated
OnlyRowChanged(before, after, id, updated) == Len(after) = Len(before) /\ \E i \in 1..Len(before) : IdText(before[i].id) = id /\ after[i] = updated[i] /\ \A j \in 1..Len(before) : j # i => after[j] = before[j]

C4_UpdateSetsSuppliedFieldsOnly ==
  [][/\ (request'.op = "updateTask" /\ response'.error = "") => OnlyRowChanged(tasks, tasks', request'.args.id, [i \in 1..Len(tasks) |-> TaskAfter(tasks[i], request'.args)]) /\ UNCHANGED <<organizations, projects, comments>>
     /\ (request'.op = "updateProject" /\ response'.error = "") => OnlyRowChanged(projects, projects', request'.args.id, [i \in 1..Len(projects) |-> ProjectAfter(projects[i], request'.args)]) /\ UNCHANGED <<organizations, tasks, comments>>]_vars

\* updateTask with status alone supplied has moved one of two tasks, whose
\* other fields were not at their defaults, to DONE
C4_Witness ==
  /\ request.op = "updateTask"
  /\ response.error = ""
  /\ request.args.status = Some("DONE")
  /\ request.args.title = NONE /\ request.args.description = NONE /\ request.args.assigneeEmail = NONE /\ request.args.dueDate = NONE
  /\ Len(tasks) = 2
  /\ response.value[1] \in Range(tasks)
  /\ response.value[1].title = "Test" /\ response.value[1].description = "all of it" /\ response.value[1].status = "DONE"
  /\ response.value[1].assignee_email = "qa@acme.io" /\ response.value[1].due_date = Some("2026-11-30T09:00")

----------------------------------------------------------------------------
====
